---- MODULE Spec2Model ----
(***************************************************************************)
(* A model of midly's primitive decoding layer (src/src/primitive.rs) and  *)
(* of its RIFF/RMID unwrapper (src/src/riff.rs).                           *)
(*                                                                         *)
(* Bytes are naturals 0..255 and a byte cursor (&[u8]) is a sequence of    *)
(* bytes.  u8 and u16 values are naturals.  A u32 (and a usize) does not   *)
(* fit TLC's integers, so it is a pair <<hi, lo>> of 16-bit limbs holding  *)
(* the value hi * 2^16 + lo.                                               *)
(***************************************************************************)
EXTENDS Integers, Sequences, FiniteSets, TLC

VARIABLES
    strict,   \* cfg!(feature = "strict") of the build
    buf,      \* the borrowed buffer the cursor was created over
    raw,      \* the cursor: the bytes not yet consumed
    pre,      \* the cursor as it was when the last operation was called
    op,       \* the last operation: <<name, arguments...>>
    res,      \* what the last operation returned
    out,      \* the output sink (impl Write) of the encoder
    wrote     \* the u28 whose encoding the sink holds, if any

vars == <<strict, buf, raw, pre, op, res, out, wrote>>

\* ------------------------------------------------------------- bounds
\* Longest input buffer of the primitive readers.
MaxLen == 4
\* Longest input buffer of the variable-length readers.
MaxVlqLen == 5
\* How far around each power of two the sampled integers are taken.
Spread == 1
\* Longest trailing byte sequence appended after an encoded quantity.
MaxRest == 2

\* Most chunks in a RIFF input, longest declared chunk, most bytes cut off
\* the end of a RIFF input.
MaxChunks == 2
MaxChunkLen == 3
MaxCut == 2

\* ------------------------------------------------------------- values
None == [tag |-> "None"]
Some(v) == [tag |-> "Some", val |-> v]
Ok(v) == [tag |-> "Ok", val |-> v]
Err(kind, msg) == [tag |-> "Err", kind |-> kind, msg |-> msg]
\* Err with a context attached by .context(); the kind of the error stays.
Context(e, ctx) == [tag |-> "Err", kind |-> e.kind, msg |-> e.msg, ctx |-> ctx]
\* The thread unwinds: an arithmetic overflow check, an index out of bounds
\* or an unreachable!() was hit.
Panic(msg) == [tag |-> "Panic", msg |-> msg]
NoResult == [tag |-> "Init"]

Pow2(n) == 2 ^ n

RECURSIVE BitOr(_, _)
BitOr(a, b) ==
    IF a = 0 THEN b
    ELSE IF b = 0 THEN a
    ELSE 2 * BitOr(a \div 2, b \div 2) + (IF a % 2 = 1 \/ b % 2 = 1 THEN 1 ELSE 0)

\* u32 and usize as limbs.
Wide(n) == <<n \div 65536, n % 65536>>
WideToNat(w) == w[1] * 65536 + w[2]
WideShl(w, n) ==
    <<(w[1] * Pow2(n) + w[2] \div Pow2(16 - n)) % 65536, (w[2] * Pow2(n)) % 65536>>
WideShr(w, n) ==
    IF n >= 16
    THEN <<0, w[1] \div Pow2(n - 16)>>
    ELSE <<w[1] \div Pow2(n), w[2] \div Pow2(n) + (w[1] % Pow2(n)) * Pow2(16 - n)>>
WideOrByte(w, b) == <<w[1], BitOr(w[2], b)>>
WideGt(w, n) == w[1] > 0 \/ w[2] > n

\* bit_range(val, lo..hi): the bits lo..hi of val, shifted down to bit 0.
BitRange(val, lo, hi) == (val \div Pow2(lo)) % Pow2(hi - lo)
BitRangeWide(w, lo, hi) ==
    LET s == WideShr(w, lo)
        n == hi - lo
    IN  IF n >= 16 THEN <<s[1] % Pow2(n - 16), s[2]>> ELSE <<0, s[2] % Pow2(n)>>

\* ------------------------------------------------------------- SplitChecked
\* split_checked with the cursor advanced to its end when too few bytes remain.
split_checked_consuming(self, at) ==
    IF WideGt(at, Len(self))
    THEN [ret |-> None, self |-> <<>>]
    ELSE [ret |-> Some(SubSeq(self, 1, at[2])),
          self |-> SubSeq(self, at[2] + 1, Len(self))]

split_checked(self, at) ==
    IF WideGt(at, Len(self))
    THEN [ret |-> None, self |-> self]
    ELSE [ret |-> Some(SubSeq(self, 1, at[2])),
          self |-> SubSeq(self, at[2] + 1, Len(self))]

\* ------------------------------------------------------------- impl_read_int
IntTypes == {"u8", "u16", "u32"}
SizeOf(t) == CASE t = "u8" -> 1 [] t = "u16" -> 2 [] t = "u32" -> 4
BitsOf(t) == 8 * SizeOf(t)

\* acc.checked_shl(8): None when the shift is as wide as the type, else the
\* shifted value with the bits pushed out of the type dropped.
checked_shl(t, acc, n) ==
    IF n >= BitsOf(t) THEN None
    ELSE IF t = "u32" THEN Some(WideShl(acc, n))
    ELSE Some((acc * Pow2(n)) % Pow2(BitsOf(t)))

Zero(t) == IF t = "u32" THEN <<0, 0>> ELSE 0

IntReadStep(t, acc, byte) ==
    LET sh == checked_shl(t, acc, 8)
        a  == IF sh.tag = "Some" THEN sh.val ELSE Zero(t)
    IN  IF t = "u32" THEN WideOrByte(a, byte) ELSE BitOr(a, byte)

RECURSIVE IntReadFold(_, _, _)
IntReadFold(t, acc, bytes) ==
    IF bytes = <<>> THEN acc
    ELSE IntReadFold(t, IntReadStep(t, acc, Head(bytes)), Tail(bytes))

IntRead(t, cur) ==
    LET s == split_checked(cur, Wide(SizeOf(t)))
    IN  IF s.ret.tag = "None"
        THEN [res |-> Err("Invalid", "failed to read the expected integer"), raw |-> s.self]
        ELSE [res |-> Ok(IntReadFold(t, Zero(t), s.ret.val)), raw |-> s.self]

\* ------------------------------------------------------------- restricted_int!
RestrictedBits == {2, 4, 7, 14, 15, 24, 28}
\* $inner of each restricted_int! instance.
Inner(bits) ==
    CASE bits \in {2, 4, 7} -> "u8"
      [] bits \in {14, 15}  -> "u16"
      [] bits \in {24, 28}  -> "u32"

\* A value of the restricted type of that width: $name($inner).
Restricted(bits, v) == [bits |-> bits, int |-> v]
as_int(x) == x.int

\* bit_range(raw, 0..$bits) on $inner.
Trunc(bits, w) ==
    IF Inner(bits) = "u32" THEN BitRangeWide(w, 0, bits) ELSE BitRange(w, 0, bits)

\* impl From<$inner> for $name: lossy, keeps the low $bits bits.
From(bits, w) == Restricted(bits, Trunc(bits, w))

\* try_from without the comparison of the truncated value with the input.
try_from_unchecked(bits, w) == Some(Restricted(bits, Trunc(bits, w)))

try_from(bits, w) ==
    LET trunc == Trunc(bits, w)
    IN  IF trunc = w THEN Some(Restricted(bits, trunc)) ELSE None

\* int_feature! read: $inner::read, then try_from (strict) or from.
RestrictedRead(bits, cur, st) ==
    LET r == IntRead(Inner(bits), cur)
    IN  IF r.res.tag = "Err" THEN r
        ELSE IF st
        THEN LET t == try_from(bits, r.res.val)
             IN  IF t.tag = "None"
                 THEN [res |-> Err("Malformed", "expected restricted int"), raw |-> r.raw]
                 ELSE [res |-> Ok(t.val), raw |-> r.raw]
        ELSE [res |-> Ok(From(bits, r.res.val)), raw |-> r.raw]

\* The fold of read_u7 on a u16: acc <<= 7; acc |= bit_range(byte, 0..7).
RECURSIVE U7Fold(_, _)
U7Fold(acc, bytes) ==
    IF bytes = <<>> THEN acc
    ELSE U7Fold(BitOr((acc * 128) % 65536, BitRange(Head(bytes), 0, 7)), Tail(bytes))

\* int_feature! read_u7 (u14 is its only instance).
RestrictedReadU7(bits, cur, st) ==
    LET s == split_checked(cur, Wide(SizeOf(Inner(bits))))
    IN  IF s.ret.tag = "None"
        THEN [res |-> Err("Invalid", "failed to read the expected integer"), raw |-> s.self]
        ELSE LET bytes == s.ret.val
                 v     == U7Fold(0, bytes)
             IN  IF st /\ ~(\A i \in 1..Len(bytes) : BitRange(bytes[i], 7, 8) = 0)
                 THEN [res |-> Err("Malformed", "invalid byte with top bit set"),
                       raw |-> s.self]
                 ELSE IF st
                 THEN LET t == try_from(bits, v)
                      IN  IF t.tag = "None"
                          THEN [res |-> Err("Malformed", "expected restricted int"),
                                raw |-> s.self]
                          ELSE [res |-> Ok(t.val), raw |-> s.self]
                 ELSE [res |-> Ok(From(bits, v)), raw |-> s.self]

\* The fold of u24::read on a u32: acc <<= 8; acc |= byte.
RECURSIVE U24Fold(_, _)
U24Fold(acc, bytes) ==
    IF bytes = <<>> THEN acc
    ELSE U24Fold(WideOrByte(WideShl(acc, 8), Head(bytes)), Tail(bytes))

U24Read(cur) ==
    LET s == split_checked(cur, Wide(3))
    IN  IF s.ret.tag = "None"
        THEN [res |-> Err("Invalid", "failed to read u24 bytes"), raw |-> s.self]
        ELSE [res |-> Ok(From(24, U24Fold(<<0, 0>>, s.ret.val))), raw |-> s.self]

\* ------------------------------------------------------------- u28 (varlen)
\* The body of `for _ in 0..4` of u28::read_u7 from iteration i on, and what
\* follows the loop.
RECURSIVE U28ReadLoop(_, _, _, _)
U28ReadLoop(i, int, cur, st) ==
    LET after == IF st
                 THEN [res |-> Err("Malformed", "varlen integer larger than 4 bytes"),
                       raw |-> cur]
                 ELSE [res |-> Ok(From(28, int)), raw |-> cur]
    IN  IF i >= 4 THEN after
        ELSE LET s == split_checked(cur, Wide(1))
             IN  IF s.ret.tag = "None"
                 THEN IF st
                      THEN [res |-> Err("Malformed", "unexpected eof while reading varlen int"),
                            raw |-> s.self]
                      ELSE after
                 ELSE LET byte == s.ret.val[1]
                          acc  == WideOrByte(WideShl(int, 7), BitRange(byte, 0, 7))
                      IN  IF BitRange(byte, 7, 8) = 0
                          THEN [res |-> Ok(From(28, acc)), raw |-> s.self]
                          ELSE U28ReadLoop(i + 1, acc, s.self, st)

\* u28::read_u7 with a loop of three iterations.
U28ReadU7_three(cur, st) == U28ReadLoop(1, <<0, 0>>, cur, st)

\* u28::read_u7 with a loop of five iterations.
U28ReadU7_five(cur, st) == U28ReadLoop(0 - 1, <<0, 0>>, cur, st)

U28ReadU7(cur, st) == U28ReadLoop(0, <<0, 0>>, cur, st)

\* The body of `for i in (0..4).rev()` of write_varlen from group i down:
\* the bytes written to the sink.
RECURSIVE WriteLoop(_, _, _)
WriteLoop(i, int, skipping) ==
    LET byte == WideToNat(WideShr(int, i * 7)) % 128
        rest(sk) == IF i = 0 THEN <<>> ELSE WriteLoop(i - 1, int, sk)
    IN  IF skipping /\ byte = 0 /\ i # 0
        THEN rest(skipping)
        ELSE <<IF i = 0 THEN byte ELSE BitOr(byte, 128)>> \o rest(FALSE)

\* write_varlen that goes on skipping zero groups after a group was written.
RECURSIVE WriteLoopSkipAll(_, _)
WriteLoopSkipAll(i, int) ==
    LET byte == WideToNat(WideShr(int, i * 7)) % 128
        rest == IF i = 0 THEN <<>> ELSE WriteLoopSkipAll(i - 1, int)
    IN  IF byte = 0 /\ i # 0
        THEN rest
        ELSE <<IF i = 0 THEN byte ELSE BitOr(byte, 128)>> \o rest

write_varlen_skip_all(self) == WriteLoopSkipAll(3, as_int(self))

write_varlen(self) == WriteLoop(3, as_int(self), TRUE)

\* read_varlen_slice that fails on a short slice whatever the mode.
read_varlen_slice_bail(cur, st) ==
    LET l == U28ReadU7(cur, st)
    IN  IF l.res.tag = "Err"
        THEN [res |-> Context(l.res, "failed to read varlen slice length"), raw |-> l.raw]
        ELSE LET s == split_checked(l.raw, as_int(l.res.val))
             IN  IF s.ret.tag = "Some"
                 THEN [res |-> Ok(s.ret.val), raw |-> s.self]
                 ELSE [res |-> Err("Malformed", "incomplete varlen slice"), raw |-> s.self]

read_varlen_slice(cur, st) ==
    LET l == U28ReadU7(cur, st)
    IN  IF l.res.tag = "Err"
        THEN [res |-> Context(l.res, "failed to read varlen slice length"), raw |-> l.raw]
        ELSE LET len == as_int(l.res.val)
                 s   == split_checked(l.raw, len)
             IN  IF s.ret.tag = "Some"
                 THEN [res |-> Ok(s.ret.val), raw |-> s.self]
                 ELSE IF st
                 THEN [res |-> Err("Malformed", "incomplete varlen slice"), raw |-> s.self]
                 ELSE [res |-> Ok(s.self), raw |-> <<>>]

\* ------------------------------------------------------------- Format
Format_read(cur) ==
    LET r == IntRead("u16", cur)
    IN  IF r.res.tag = "Err" THEN r
        ELSE [res |-> CASE r.res.val = 0 -> Ok("SingleTrack")
                        [] r.res.val = 1 -> Ok("Parallel")
                        [] r.res.val = 2 -> Ok("Sequential")
                        [] OTHER -> Err("Invalid", "invalid smf format"),
              raw |-> r.raw]

\* ------------------------------------------------------------- Fps
Fps == {"Fps24", "Fps25", "Fps29", "Fps30"}

Fps_from_code(code) ==
    CASE as_int(code) = 0 -> Ok("Fps24")
      [] as_int(code) = 1 -> Ok("Fps25")
      [] as_int(code) = 2 -> Ok("Fps29")
      [] as_int(code) = 3 -> Ok("Fps30")
      [] OTHER -> Panic("unreachable")

Fps_from_int(n) ==
    CASE n = 24 -> Some("Fps24")
      [] n = 25 -> Some("Fps25")
      [] n = 29 -> Some("Fps29")
      [] n = 30 -> Some("Fps30")
      [] OTHER -> None

Fps_as_int(fps) ==
    CASE fps = "Fps24" -> 24
      [] fps = "Fps25" -> 25
      [] fps = "Fps29" -> 29
      [] fps = "Fps30" -> 30

\* ------------------------------------------------------------- Timing
\* `x as i8` of a u8.
AsI8(b) == IF b >= 128 THEN b - 256 ELSE b
\* `x as u8` of an i8.
AsU8(i) == IF i < 0 THEN i + 256 ELSE i
\* -x on an i8: -(-128) is not an i8.  With overflow checks (the default of
\* a debug build) the negation panics, without them it wraps to -128.
NegI8(i, overflow_checks) ==
    IF i = -128
    THEN IF overflow_checks THEN Panic("attempt to negate with overflow") ELSE Ok(-128)
    ELSE Ok(-i)

Timing_read(cur, overflow_checks) ==
    LET r == IntRead("u16", cur)
    IN  IF r.res.tag = "Err"
        THEN [res |-> Context(r.res, "unexpected eof when reading midi timing"),
              raw |-> r.raw]
        ELSE LET w == r.res.val
             IN  IF BitRange(w, 15, 16) # 0
                 THEN LET fps      == NegI8(AsI8(BitRange(w, 8, 16)), overflow_checks)
                          subframe == BitRange(w, 0, 8)
                      IN  IF fps.tag = "Panic" THEN [res |-> fps, raw |-> r.raw]
                          ELSE LET f == Fps_from_int(AsU8(fps.val))
                               IN  IF f.tag = "None"
                                   THEN [res |-> Err("Invalid", "invalid smpte fps"),
                                         raw |-> r.raw]
                                   ELSE [res |-> Ok([variant |-> "Timecode", fps |-> f.val,
                                                     subframe |-> subframe]),
                                         raw |-> r.raw]
                 ELSE [res |-> Ok([variant |-> "Metrical", ticks |-> From(15, w)]),
                       raw |-> r.raw]

\* ------------------------------------------------------------- SmpteTime
SmpteTime_new(hour, minute, second, frame, subframe, fps) ==
    IF ~(hour < 24) THEN None
    ELSE IF ~(minute < 60) THEN None
    ELSE IF ~(second < 60) THEN None
    ELSE IF ~(frame < Fps_as_int(fps)) THEN None
    ELSE IF ~(subframe < 100) THEN None
    ELSE Some([hour |-> hour, minute |-> minute, second |-> second,
               frame |-> frame, subframe |-> subframe, fps |-> fps])

\* data[i] (0-based): a panic when i is out of bounds.
Index(data, i) == IF i < Len(data) THEN Ok(data[i + 1]) ELSE Panic("index out of bounds")

SmpteTime_read(cur) ==
    LET s == split_checked(cur, Wide(5))
    IN  IF s.ret.tag = "None"
        THEN [res |-> Err("Invalid", "failed to read smpte time data"), raw |-> s.self]
        ELSE LET data == s.ret.val
                 b    == [i \in 0..4 |-> Index(data, i)]
             IN  IF \E i \in 0..4 : b[i].tag = "Panic"
                 THEN [res |-> Panic("index out of bounds"), raw |-> s.self]
                 ELSE LET hour == BitRange(b[0].val, 0, 5)
                          fps  == Fps_from_code(From(2, BitRange(b[0].val, 5, 7)))
                      IN  IF fps.tag = "Panic" THEN [res |-> fps, raw |-> s.self]
                          ELSE LET t == SmpteTime_new(hour, b[1].val, b[2].val, b[3].val,
                                                      b[4].val, fps.val)
                               IN  IF t.tag = "None"
                                   THEN [res |-> Err("Invalid", "invalid smpte time"),
                                         raw |-> s.self]
                                   ELSE [res |-> Ok(t.val), raw |-> s.self]

\* ------------------------------------------------------------- riff.rs
TagRIFF == <<82, 73, 70, 70>>
TagRMID == <<82, 77, 73, 68>>
TagData == <<100, 97, 116, 97>>

\* u32::from_le_bytes of four bytes.
from_le_bytes(b) == <<b[4] * 256 + b[3], b[2] * 256 + b[1]>>

\* ChunkIter::next without the skip of the pad byte.
ChunkIter_next_no_pad(self0) ==
    IF Len(self0) >= 8
    THEN LET rest == SubSeq(self0, 9, Len(self0))
             s    == split_checked(rest, from_le_bytes(SubSeq(self0, 5, 8)))
         IN  [ret |-> Some([id |-> SubSeq(self0, 1, 4),
                            data |-> IF s.ret.tag = "Some" THEN s.ret.val ELSE rest]),
              self |-> IF s.ret.tag = "Some" THEN s.self ELSE <<>>]
    ELSE [ret |-> None, self |-> self0]

\* ChunkIter::next that ends the iteration at a chunk longer than what is left.
ChunkIter_next_failing(self0) ==
    IF Len(self0) >= 8
    THEN LET rest == SubSeq(self0, 9, Len(self0))
             len  == from_le_bytes(SubSeq(self0, 5, 8))
             s    == split_checked(rest, len)
         IN  IF s.ret.tag = "None" THEN [ret |-> None, self |-> rest]
             ELSE [ret |-> Some([id |-> SubSeq(self0, 1, 4), data |-> s.ret.val]),
                   self |-> IF len[2] % 2 = 1
                            THEN split_checked(s.self, Wide(1)).self ELSE s.self]
    ELSE [ret |-> None, self |-> self0]

\* ChunkIter::next on the iterator's slice self.0: the item and the slice left.
\* &self.0[..4], &self.0[4..8] and &self.0[8..] panic when out of range.
ChunkIter_next(self0) ==
    IF Len(self0) >= 8
    THEN IF ~(4 <= Len(self0) /\ 8 <= Len(self0))
         THEN [ret |-> Panic("range end index out of range"), self |-> self0]
         ELSE LET id   == SubSeq(self0, 1, 4)
                  rest == SubSeq(self0, 9, Len(self0))
                  len  == from_le_bytes(SubSeq(self0, 5, 8))
                  s    == split_checked(rest, len)
                  data == IF s.ret.tag = "Some" THEN s.ret.val ELSE rest
                  left == IF s.ret.tag = "Some" THEN s.self ELSE <<>>
              IN  [ret |-> Some([id |-> id, data |-> data]),
                   self |-> IF len[2] % 2 = 1
                            THEN split_checked(left, Wide(1)).self ELSE left]
    ELSE [ret |-> None, self |-> self0]

\* `for (id, chunk) in ChunkIter(riff)` of unwrap, and the None after it.
RECURSIVE FindData(_)
FindData(cur) ==
    LET n == ChunkIter_next(cur)
    IN  IF n.ret.tag # "Some" THEN n.ret
        ELSE IF n.ret.val.id = TagData THEN Some(n.ret.val.data)
        ELSE FindData(n.self)

\* unwrap that takes the "data" chunk of any RIFF form.
unwrap_any_form(bytes) ==
    LET first == ChunkIter_next(bytes)
    IN  IF first.ret.tag # "Some" THEN first.ret
        ELSE IF first.ret.val.id # TagRIFF THEN None
        ELSE LET f == split_checked(first.ret.val.data, Wide(4))
             IN  IF f.ret.tag = "None" THEN None ELSE FindData(f.self)

unwrap(bytes) ==
    LET first == ChunkIter_next(bytes)
    IN  IF first.ret.tag # "Some" THEN first.ret
        ELSE IF first.ret.val.id # TagRIFF THEN None
        ELSE LET f == split_checked(first.ret.val.data, Wide(4))
             IN  IF f.ret.tag = "None" THEN None
                 ELSE IF f.ret.val # TagRMID THEN None
                 ELSE FindData(f.self)

\* ------------------------------------------------------------- inputs
RECURSIVE SeqsUpTo(_, _)
SeqsUpTo(S, n) ==
    IF n = 0 THEN {<<>>}
    ELSE LET shorter == SeqsUpTo(S, n - 1)
         IN  shorter \cup {<<x>> \o s : x \in S, s \in {t \in shorter : Len(t) = n - 1}}

\* The byte values the input buffers are made of: 0x00 and 0x02 (small
\* numbers, the format codes), 0x80 (the top bit alone, -128 as an i8) and
\* 0xE7 (-25 as an i8).
InputBytes == {0, 2, 128, 231}

\* Five-byte SMPTE times around the limits of each field; the first byte
\* packs the hour and the fps code.
SmpteInputs ==
    {<<h, m, s, f, sf>> : h \in {0, 55, 120, 255}, m \in {59, 60}, s \in {0, 60},
                          f \in {23, 24, 29, 30}, sf \in {99, 100}}

Inputs == SeqsUpTo(InputBytes, MaxLen) \cup SmpteInputs

\* Bytes for the restricted-int readers: no bit, the low seven bits, all bits.
IntBytes == {0, 127, 255}
IntInputs == SeqsUpTo(IntBytes, MaxLen)

\* Bytes for the variable-length readers: 0x00 and 0x02 end a quantity,
\* 0x81 and 0xFF continue it.
VlqBytes == {0, 2, 129, 255}
VlqInputs == SeqsUpTo(VlqBytes, MaxVlqLen)

\* Integers around the powers of two up to 2^hi, below 2^hi (naturals).
Around(hi) ==
    {n \in {Pow2(k) + d : k \in 0..hi, d \in (0 - Spread)..Spread} : n >= 0 /\ n < Pow2(hi)}

\* Values of a native type around the powers of two; a u32 is made of a
\* high limb around a power of two and a low limb of no bits or all bits,
\* or of a fixed high limb and a low limb around a power of two.
Native(t) ==
    CASE t = "u8"  -> Around(8)
      [] t = "u16" -> Around(16)
      [] t = "u32" -> {<<h, l>> : h \in Around(16), l \in {0, 65535}}
                      \cup {<<h, l>> : h \in {0, 4095}, l \in Around(16)}

\* The 28-bit values that are encoded: around each group boundary.
VlqValues == {From(28, Wide(n)) : n \in Around(28)}

\* A little-endian u32 length field (n < 2^16).
LE32(n) == <<n % 256, n \div 256, 0, 0>>

\* A well-formed chunk: header, j-numbered payload bytes, pad byte if odd.
Chunk(tag, len, j) ==
    tag \o LE32(len) \o [i \in 1..len |-> 16 * j + i] \o (IF len % 2 = 1 THEN <<0>> ELSE <<>>)

\* A tag that is none of the tags unwrap looks for.
TagLIST == <<76, 73, 83, 84>>
TagWAVE == <<87, 65, 86, 69>>

\* Sequences of up to n well-formed chunks, as the list of their bytes.
RECURSIVE ChunkLists(_)
ChunkLists(n) ==
    IF n = 0 THEN {<<>>}
    ELSE LET shorter == ChunkLists(n - 1)
         IN  shorter \cup
             {Append(l, Chunk(tag, len, n)) :
                 l \in {t \in shorter : Len(t) = n - 1},
                 tag \in {TagData, TagLIST}, len \in 0..MaxChunkLen}

RECURSIVE Concat(_)
Concat(l) == IF l = <<>> THEN <<>> ELSE Head(l) \o Concat(Tail(l))

Cut(s, c) == SubSeq(s, 1, IF Len(s) > c THEN Len(s) - c ELSE 0)

\* Chunk sequences with no wrapper, some bytes short.
BareInputs == {Cut(Concat(l), c) : l \in ChunkLists(MaxChunks), c \in 0..MaxCut}

\* A RIFF chunk whose declared length covers the form type and the first k
\* chunks that follow it, some bytes short.
WrappedInputs ==
    UNION {{Cut(TagRIFF \o LE32(4 + Len(Concat(SubSeq(l, 1, k)))) \o form \o Concat(l), c) :
                k \in 0..Len(l), form \in {TagRMID, TagWAVE}, c \in 0..MaxCut} :
           l \in ChunkLists(MaxChunks)}

\* Every prefix of an empty RMID file.
HeaderInputs ==
    LET h == TagRIFF \o LE32(4) \o TagRMID IN {SubSeq(h, 1, n) : n \in 0..Len(h)}

\* Lengths of 2^32 - 1 in both headers.
HugeInputs ==
    {TagRIFF \o <<255, 255, 255, 255>> \o TagRMID \o tag \o <<255, 255, 255, 255>>
        \o [i \in 1..n |-> i] : tag \in {TagData, TagLIST}, n \in 0..MaxChunkLen}

RiffInputs == BareInputs \cup WrappedInputs \cup HeaderInputs \cup HugeInputs

\* ------------------------------------------------------------- actions
\* One call of a reader on the cursor: r is what the reader returns.
Call(name, r) ==
    /\ pre' = raw
    /\ op' = name
    /\ res' = r.res
    /\ raw' = r.raw
    /\ UNCHANGED <<strict, buf, out, wrote>>

Split(n) ==
    LET s == split_checked(raw, Wide(n))
    IN  Call(<<"split_checked", n>>, [res |-> s.ret, raw |-> s.self])

ReadInt(t) == Call(<<"IntRead", t>>, IntRead(t, raw))

ReadRestricted(bits) == Call(<<"read", bits>>, RestrictedRead(bits, raw, strict))

ReadU14U7 == Call(<<"read_u7", 14>>, RestrictedReadU7(14, raw, strict))

ReadU24 == Call(<<"read", 24>>, U24Read(raw))

ReadU28 == Call(<<"read_u7", 28>>, U28ReadU7(raw, strict))

ReadVarlenSlice == Call(<<"read_varlen_slice">>, read_varlen_slice(raw, strict))

ReadFormat == Call(<<"Format::read">>, Format_read(raw))

ReadTiming(overflow_checks) ==
    Call(<<"Timing::read">>, Timing_read(raw, overflow_checks))

ReadSmpteTime == Call(<<"SmpteTime::read">>, SmpteTime_read(raw))

\* A constructor call.  No cursor is involved and the result does not depend
\* on one, so the constructors are called beside the empty buffer only.
Construct(name, r) ==
    /\ buf = <<>>
    /\ op' = name
    /\ res' = r
    /\ UNCHANGED <<strict, buf, raw, pre, out, wrote>>

CallFrom(bits, w) == Construct(<<"from", bits, w>>, Some(From(bits, w)))

CallTryFrom(bits, w) == Construct(<<"try_from", bits, w>>, try_from(bits, w))

\* v.write_varlen(&mut out) on an empty sink.
WriteVarlen(v) ==
    /\ op = <<"init">>
    /\ buf = <<>>
    /\ out' = out \o write_varlen(v)
    /\ wrote' = Some(v)
    /\ op' = <<"write_varlen">>
    /\ res' = Ok(<<>>)
    /\ UNCHANGED <<strict, buf, raw, pre>>

\* A cursor is opened over the bytes of the sink followed by `rest`.
Reopen(rest) ==
    /\ op = <<"write_varlen">>
    /\ buf' = out \o rest
    /\ raw' = buf'
    /\ pre' = buf'
    /\ op' = <<"open">>
    /\ res' = NoResult
    /\ UNCHANGED <<strict, out, wrote>>

\* unwrap(buf): the slice is passed by value, no cursor moves.
Unwrap ==
    /\ op' = <<"unwrap">>
    /\ res' = unwrap(buf)
    /\ UNCHANGED <<strict, buf, raw, pre, out, wrote>>

\* next() on a ChunkIter made over the buffer.
ChunkNext ==
    LET n == ChunkIter_next(raw)
    IN  Call(<<"ChunkIter::next">>, [res |-> n.ret, raw |-> n.self])

InitOn(inputs) ==
    /\ strict \in BOOLEAN
    /\ buf \in inputs
    /\ raw = buf
    /\ pre = buf
    /\ op = <<"init">>
    /\ res = NoResult
    /\ out = <<>>
    /\ wrote = None

\* The readers of primitive.rs on one cursor.
Init == InitOn(Inputs)

Next ==
    \/ \E n \in 0..(MaxLen + 1) : Split(n)
    \/ \E t \in IntTypes : ReadInt(t)
    \/ \E bits \in {2, 4, 7, 14, 15} : ReadRestricted(bits)
    \/ ReadU14U7
    \/ ReadU24
    \/ ReadU28
    \/ ReadVarlenSlice
    \/ ReadFormat
    \/ \E overflow_checks \in BOOLEAN : ReadTiming(overflow_checks)
    \/ ReadSmpteTime

Spec == Init /\ [][Next]_vars

\* The restricted integers: their constructors and their readers.
InitInt == InitOn(IntInputs)

NextInt ==
    \/ \E bits \in RestrictedBits : \E w \in Native(Inner(bits)) : CallFrom(bits, w)
    \/ \E bits \in RestrictedBits : \E w \in Native(Inner(bits)) : CallTryFrom(bits, w)
    \/ \E bits \in {2, 4, 7, 14, 15} : ReadRestricted(bits)
    \/ ReadU14U7
    \/ ReadU24
    \/ ReadU28

SpecInt == InitInt /\ [][NextInt]_vars

\* The variable-length quantity: written, and read back or read from
\* arbitrary bytes.
InitVlq == InitOn(VlqInputs)

NextVlq ==
    \/ \E v \in VlqValues : WriteVarlen(v)
    \/ \E rest \in SeqsUpTo(VlqBytes, MaxRest) : Reopen(rest)
    \/ ReadU28
    \/ ReadVarlenSlice

SpecVlq == InitVlq /\ [][NextVlq]_vars

\* The RIFF unwrapper and its chunk iterator.
InitRiff == InitOn(RiffInputs)

NextRiff ==
    \/ Unwrap
    \/ ChunkNext

SpecRiff == InitRiff /\ [][NextRiff]_vars

\* ============================================================= claims
Min(S) == CHOOSE x \in S : \A y \in S : x <= y

\* The cursor is what is left of the buffer after its first k bytes.
IsSuffix(s, t) == \E k \in 0..Len(t) : s = SubSeq(t, k + 1, Len(t))

\* The cursor was opened over the bytes of the sink and what follows them.
OverSink == Len(buf) >= Len(out) /\ SubSeq(buf, 1, Len(out)) = out

\* C1: a quantity written by write_varlen and followed by any bytes is read
\* back by u28::read_u7 in both modes: the read succeeds with the value that
\* was written and leaves the cursor on the bytes that followed it.
C1_RoundTrip ==
    (op = <<"read_u7", 28>> /\ wrote.tag = "Some" /\ OverSink /\ pre = buf) =>
        /\ res = Ok(wrote.val)
        /\ out \o raw = buf

C1_Witness ==
    /\ op = <<"read_u7", 28>>
    /\ pre = buf
    /\ wrote = Some(Restricted(28, <<4095, 65535>>))
    /\ strict
    /\ Len(out) = 4
    /\ Len(raw) = MaxRest
    /\ res.tag = "Ok"

\* The number of 7-bit groups of the canonical form of v.
Groups(v) == Min({k \in 1..4 : v < Pow2(7 * k)})

\* C2: write_varlen emits the smallest number k of 7-bit groups that holds
\* the value, most significant group first, with the top bit set on every
\* byte but the last; so 0 is 0x00, 127 is 0x7F, 128 is 0x81 0x00 and
\* 2^28 - 1 is 0xFF 0xFF 0xFF 0x7F, and the first group is zero for 0 only.
C2_Canonical ==
    wrote.tag = "Some" =>
        LET v == WideToNat(as_int(wrote.val))
            k == Groups(v)
        IN  /\ Len(out) = k
            /\ \A i \in 0..(k - 1) :
                   out[i + 1] = ((v \div Pow2(7 * (k - 1 - i))) % 128)
                                + (IF i < k - 1 THEN 128 ELSE 0)
            /\ (v # 0 => out[1] % 128 # 0)
            /\ (v = 0 => out = <<0>>)
            /\ (v = 127 => out = <<127>>)
            /\ (v = 128 => out = <<129, 0>>)
            /\ (v = Pow2(28) - 1 => out = <<255, 255, 255, 127>>)

C2_Witness ==
    /\ op = <<"write_varlen">>
    /\ wrote = Some(Restricted(28, <<0, 16384>>))
    /\ out = <<129, 128, 0>>

\* C3: no read operation of primitive.rs ends in a panic.
C3_NoPanic == res.tag # "Panic"

\* The bytes u28::read_u7 looks at: the first four, or all when fewer.
Looked(s) == SubSeq(s, 1, IF Len(s) < 4 THEN Len(s) ELSE 4)

\* The big-endian concatenation of the low 7 bits of the bytes of s.
RECURSIVE Low7(_)
Low7(s) ==
    IF s = <<>> THEN 0
    ELSE (Low7(SubSeq(s, 1, Len(s) - 1)) * 128) + (s[Len(s)] % 128)

\* C4: when none of the bytes u28::read_u7 looks at has a clear top bit,
\* strict mode fails with Malformed and lenient mode returns the low 7 bits
\* of those bytes, concatenated, having consumed exactly those bytes.
C4_Unterminated ==
    (op = <<"read_u7", 28>> /\ \A i \in 1..Len(Looked(pre)) : pre[i] >= 128) =>
        IF strict
        THEN res.tag = "Err" /\ res.kind = "Malformed"
        ELSE /\ res = Ok(Restricted(28, Wide(Low7(Looked(pre)))))
             /\ raw = SubSeq(pre, Len(Looked(pre)) + 1, Len(pre))
             /\ Len(pre) - Len(raw) <= 4

C4_Witness ==
    /\ op = <<"read_u7", 28>>
    /\ ~strict
    /\ pre = <<255, 129, 129, 255, 129>>
    /\ res = Ok(Restricted(28, <<4064, 16639>>))
    /\ raw = <<129>>

\* C5: read_varlen_slice reads a length L with u28::read_u7 and returns the
\* next L bytes, advancing past them; when fewer remain, strict mode fails
\* with Malformed "incomplete varlen slice" and lenient mode returns the
\* bytes that remain and empties the cursor.  In lenient mode it never fails.
C5_VarlenSlice ==
    op = <<"read_varlen_slice">> =>
        LET l == U28ReadU7(pre, strict)
        IN  /\ l.res.tag = "Ok" =>
                LET L   == as_int(l.res.val)
                    rem == l.raw
                IN  IF ~WideGt(L, Len(rem))
                    THEN /\ res = Ok(SubSeq(rem, 1, L[2]))
                         /\ raw = SubSeq(rem, L[2] + 1, Len(rem))
                    ELSE IF strict
                    THEN /\ res.tag = "Err"
                         /\ res.kind = "Malformed"
                         /\ res.msg = "incomplete varlen slice"
                    ELSE res = Ok(rem) /\ raw = <<>>
            /\ ~strict => res.tag = "Ok"

C5_Witness ==
    /\ op = <<"read_varlen_slice">>
    /\ ~strict
    /\ pre = <<129, 0, 2, 255>>
    /\ res = Ok(<<2, 255>>)
    /\ raw = <<>>

\* C8: split_checked(n) returns the first n bytes and leaves the rest when
\* n bytes remain, and otherwise returns None and leaves the cursor as it
\* was; the cursor is always a suffix of the buffer, it never grows, and a
\* fixed-width integer read that fails leaves it as it was.
C8_Split ==
    /\ op[1] = "split_checked" =>
           IF op[2] <= Len(pre)
           THEN /\ res = Some(SubSeq(pre, 1, op[2]))
                /\ res.val \o raw = pre
                /\ Len(raw) = Len(pre) - op[2]
           ELSE res = None /\ raw = pre
    /\ IsSuffix(raw, buf)
    /\ IsSuffix(raw, pre)
    /\ (op[1] = "IntRead" /\ res.tag = "Err") => raw = pre
    /\ (op[1] = "IntRead" /\ res.tag = "Ok") => Len(raw) = Len(pre) - SizeOf(op[2])

C8_Witness ==
    /\ op = <<"split_checked", 3>>
    /\ res = None
    /\ Len(buf) = 4
    /\ Len(pre) = 2
    /\ raw = pre

\* w < 2^bits and w mod 2^bits for a value of the native type of that width.
Fits(bits, w) ==
    IF Inner(bits) = "u32" THEN w[1] < Pow2(bits - 16) ELSE w < Pow2(bits)
ModPow2(bits, w) ==
    IF Inner(bits) = "u32" THEN <<w[1] % Pow2(bits - 16), w[2]>> ELSE w % Pow2(bits)

\* C9: try_from(w) succeeds iff w < 2^N, and then holds w; from(w) holds
\* w mod 2^N; every restricted integer that from, try_from, read or read_u7
\* return is below 2^N.
C9_Constructors ==
    /\ op[1] = "try_from" =>
           IF Fits(op[2], op[3])
           THEN res.tag = "Some" /\ as_int(res.val) = op[3] /\ res.val.bits = op[2]
           ELSE res = None
    /\ op[1] = "from" =>
           res.tag = "Some" /\ as_int(res.val) = ModPow2(op[2], op[3])
    /\ (op[1] \in {"from", "try_from", "read", "read_u7"} /\ res.tag \in {"Some", "Ok"}) =>
           /\ res.val.bits = op[2]
           /\ Fits(op[2], as_int(res.val))

C9_Witness ==
    /\ op = <<"try_from", 28, <<4096, 0>>>>
    /\ res = None

\* The little-endian u32 at offset o of s.
LE32At(s, o) == <<s[o + 4] * 256 + s[o + 3], s[o + 2] * 256 + s[o + 1]>>

\* The number of data bytes of a chunk declaring `len` with `avail` bytes
\* after its header.
Present(len, avail) == IF WideGt(len, avail) THEN avail ELSE len[2]

\* The payload of the first chunk tagged "data" among the chunks of s laid
\* out from offset o: header at o, data at o + 8, next header after the data
\* and its pad byte.
RECURSIVE FirstData(_, _)
FirstData(s, o) ==
    IF Len(s) - o < 8 THEN None
    ELSE LET len == LE32At(s, o + 4)
             n   == Present(len, Len(s) - o - 8)
             nxt == o + 8 + n + (len[2] % 2)
         IN  IF SubSeq(s, o + 1, o + 4) = TagData THEN Some(SubSeq(s, o + 9, o + 8 + n))
             ELSE FirstData(s, IF nxt > Len(s) THEN Len(s) ELSE nxt)

\* What unwrap is to return: the first "data" chunk after the form type of a
\* first chunk tagged "RIFF" whose payload starts with "RMID".
Recognized(s) ==
    IF Len(s) >= 8 /\ SubSeq(s, 1, 4) = TagRIFF
    THEN LET payload == SubSeq(s, 9, 8 + Present(LE32At(s, 4), Len(s) - 8))
         IN  IF Len(payload) >= 4 /\ SubSeq(payload, 1, 4) = TagRMID
             THEN FirstData(payload, 4)
             ELSE None
    ELSE None

\* s is "RIFF" len "RMID" "data" payload_len payload, with len covering all
\* that follows it.
IsRmid(s) ==
    /\ Len(s) >= 20
    /\ SubSeq(s, 1, 4) = TagRIFF
    /\ SubSeq(s, 9, 12) = TagRMID
    /\ SubSeq(s, 13, 16) = TagData
    /\ LE32At(s, 4)[1] > 0 \/ LE32At(s, 4)[2] >= Len(s) - 8

\* C6: unwrap returns the payload of the first "data" chunk after the form
\* type exactly when the first chunk is "RIFF" and its payload starts with
\* "RMID" and there is such a chunk, and None otherwise; of a well-formed
\* RMID file with one "data" chunk it returns the payload.
C6_Unwrap ==
    op = <<"unwrap">> =>
        /\ res = Recognized(buf)
        /\ res.tag \in {"Some", "None"}
        /\ (Len(buf) < 8 \/ SubSeq(buf, 1, 4) # TagRIFF) => res = None
        /\ (IsRmid(buf) /\ LE32At(buf, 16) = Wide(Len(buf) - 20)) =>
               res = Some(SubSeq(buf, 21, Len(buf)))

C6_Witness ==
    /\ op = <<"unwrap">>
    /\ buf = TagRIFF \o LE32(22) \o TagRMID \o Chunk(TagLIST, 0, 1) \o Chunk(TagData, 2, 2)
    /\ res = Some(<<33, 34>>)

\* The chunk at the front of the cursor declares a length that fits.
ChunkFits(s) == Len(s) >= 8 /\ ~WideGt(LE32At(s, 4), Len(s) - 8)

\* C7 as claimed: a chunk whose length fits is yielded with exactly its data,
\* and the cursor is left 8 + len + (len mod 2) bytes further.
C7_Padding_Claimed ==
    (op = <<"ChunkIter::next">> /\ ChunkFits(pre)) =>
        LET len == LE32At(pre, 4)[2]
        IN  /\ res = Some([id |-> SubSeq(pre, 1, 4), data |-> SubSeq(pre, 9, 8 + len)])
            /\ Len(pre) - Len(raw) = 8 + len + (len % 2)

\* C7 as the code has it: the pad byte of an odd chunk is skipped when there
\* is one; when the data of an odd chunk ends the input the cursor is left
\* empty.
C7_Padding ==
    (op = <<"ChunkIter::next">> /\ ChunkFits(pre)) =>
        LET len == LE32At(pre, 4)[2]
            pad == IF len % 2 = 1 /\ Len(pre) > 8 + len THEN 1 ELSE 0
        IN  /\ res = Some([id |-> SubSeq(pre, 1, 4), data |-> SubSeq(pre, 9, 8 + len)])
            /\ Len(pre) - Len(raw) = 8 + len + pad
            /\ raw = SubSeq(pre, 8 + len + pad + 1, Len(pre))

C7_Witness ==
    /\ op = <<"ChunkIter::next">>
    /\ pre = Chunk(TagLIST, 3, 1) \o Chunk(TagData, 2, 2)
    /\ res = Some([id |-> TagLIST, data |-> <<17, 18, 19>>])
    /\ raw = Chunk(TagData, 2, 2)

\* C10: a chunk that declares more bytes than are left is yielded with all
\* the bytes left and leaves the cursor empty, where next yields no chunk;
\* unwrap of an RMID file whose "data" chunk is cut short returns the bytes
\* that are there.
C10_Truncated ==
    /\ (op = <<"ChunkIter::next">> /\ Len(pre) >= 8 /\ ~ChunkFits(pre)) =>
           /\ res = Some([id |-> SubSeq(pre, 1, 4), data |-> SubSeq(pre, 9, Len(pre))])
           /\ raw = <<>>
           /\ ChunkIter_next(raw).ret = None
    /\ (op = <<"ChunkIter::next">> /\ pre = <<>>) => res = None /\ raw = <<>>
    /\ (op = <<"unwrap">> /\ IsRmid(buf) /\ WideGt(LE32At(buf, 16), Len(buf) - 20)) =>
           res = Some(SubSeq(buf, 21, Len(buf)))

C10_Witness ==
    /\ op = <<"unwrap">>
    /\ buf = TagRIFF \o LE32(16) \o TagRMID \o TagData \o LE32(3) \o <<17, 18>>
    /\ res = Some(<<17, 18>>)

====
